---- MODULE Spec2Model ----
(***************************************************************************)
(* The Twilio actions of CustomController (src/controller/                 *)
(* custom_controller.py): "Send Twilio Message", "Verify Twilio Message"   *)
(* and the overridden "Done".  The host registry invokes one action at a   *)
(* time; a handler runs up to the point where it awaits the curl           *)
(* subprocess and is resumed when the subprocess has finished.             *)
(*                                                                         *)
(* Text is a sequence of string fragments; message bodies are split into   *)
(* single characters so that strip() and lower() act on them.              *)
(***************************************************************************)
EXTENDS Integers, Sequences, FiniteSets, TLC

VARIABLES
  env,        \* the process environment: variable name -> Optional[str]
  pc,         \* where the invoked handler is
  action,     \* the action the registry invoked last
  params,     \* its parameter object
  spawned,    \* calls of create_subprocess_exec made by this invocation
  sendCalls,  \* calls of send_twilio_message made by this invocation
  transport,  \* what the network did to the request of this invocation
  proc,       \* the finished curl process: returncode, stdout, stderr
  outcome     \* how the invocation ended: a returned ActionResult or a raise

vars == <<env, pc, action, params, spawned, sendCalls, transport, proc, outcome>>

(***************************************************************************)
(* Bounds                                                                  *)
(***************************************************************************)
\* longest run of blanks put before and after a word of a body
MaxPad == 1
\* longest list of inbound records the provider answers with
MaxRecords == 2

(***************************************************************************)
(* Python values                                                           *)
(***************************************************************************)
\* Optional[str] of the ActionResult fields: an f-string is kept as its
\* template and the values interpolated into it
None == [some |-> FALSE, fmt |-> "", args |-> <<>>]
Str(fmt, args) == [some |-> TRUE, fmt |-> fmt, args |-> args]

\* Optional[str] of os.getenv and of expected_message
NoValue == [some |-> FALSE, s |-> <<>>]
Value(s) == [some |-> TRUE, s |-> s]

\* truthiness of an Optional[str]: None and "" are falsy
Truthy(v) == v.some /\ v.s # <<>>

\* the values json.loads produces
JNull == [t |-> "null"]
JNum(n) == [t |-> "num", n |-> n]
JStr(s) == [t |-> "str", s |-> s]
JList(items) == [t |-> "list", items |-> items]
JObj(fields) == [t |-> "obj", fields |-> fields]

\* only dict has .get
HasGet(v) == v.t = "obj"
PyGet(v, key, default) == IF key \in DOMAIN v.fields THEN v.fields[key] ELSE default

\* len() is defined on list, str and dict
HasLen(v) == v.t \in {"list", "str", "obj"}
PyLen(v) ==
  CASE v.t = "list" -> Len(v.items)
    [] v.t = "str" -> Len(v.s)
    [] v.t = "obj" -> Cardinality(DOMAIN v.fields)

\* v[i] with an int i: a dict decoded from JSON has string keys only
HasIndex(v) == v.t \in {"list", "str"}
PyIndex(v, i) ==
  CASE v.t = "list" -> v.items[i + 1]
    [] v.t = "str" -> JStr(<<v.s[i + 1]>>)

Whitespace == {" ", "\t", "\n", "\r"}

UpperToLower ==
  [c \in {"Y", "E", "S", "N", "O", "K"} |->
     CASE c = "Y" -> "y" [] c = "E" -> "e" [] c = "S" -> "s"
       [] c = "N" -> "n" [] c = "O" -> "o" [] c = "K" -> "k"]

\* str.lower()
Lower(s) == [i \in 1..Len(s) |-> IF s[i] \in DOMAIN UpperToLower THEN UpperToLower[s[i]] ELSE s[i]]

RECURSIVE LStrip(_)
LStrip(s) == IF s # <<>> /\ Head(s) \in Whitespace THEN LStrip(Tail(s)) ELSE s

RECURSIVE RStrip(_)
RStrip(s) ==
  IF s # <<>> /\ s[Len(s)] \in Whitespace THEN RStrip(SubSeq(s, 1, Len(s) - 1)) ELSE s

\* str.strip()
Strip(s) == RStrip(LStrip(s))

(***************************************************************************)
(* ActionResult and the two ways a handler ends                            *)
(***************************************************************************)
ActionResult(is_done, extracted_content, error) ==
  [is_done |-> is_done, extracted_content |-> extracted_content, error |-> error]

Return(r) == [kind |-> "return", result |-> r]
Raise(e) == [kind |-> "raise", exc |-> e]
NoOutcome == [kind |-> "none"]

(***************************************************************************)
(* curl, as the two command lines use it                                   *)
(***************************************************************************)
\* the options of the two curl_command lists
SendCurlOptions == {"-X", "--data-urlencode", "-u"}
VerifyCurlOptions == {"-s", "-X", "-u"}

NoTransport == [kind |-> "none"]
NoResponse(exit) == [kind |-> "no_response", exit |-> exit]
Http(status, body) == [kind |-> "http", status |-> status, body |-> body]

RawText(raw) == [kind |-> "text", raw |-> raw]
JsonDoc(value) == [kind |-> "json", value |-> value]

\* curl exits 0 once an HTTP response has arrived, whatever its status,
\* unless --fail is given; -s silences the progress meter and the error text
CurlReturnCode(options, t) ==
  IF t.kind = "http"
    THEN IF (options \cap {"-f", "--fail"}) # {} /\ t.status >= 400 THEN 22 ELSE 0
    ELSE t.exit

CurlStderr(options, t) ==
  IF "-s" \in options /\ (options \cap {"-S", "--show-error"}) = {}
    THEN <<>>
    ELSE IF CurlReturnCode(options, t) = 0
           THEN <<"% Total % Received">>
           ELSE <<"curl: (", ToString(CurlReturnCode(options, t)), ")">>

CurlStdout(options, t) ==
  IF t.kind = "http" /\ CurlReturnCode(options, t) = 0 THEN t.body ELSE RawText(<<>>)

\* process.returncode and the pair process.communicate() gives
Communicate(options, t) ==
  [returncode |-> CurlReturnCode(options, t),
   stdout |-> CurlStdout(options, t),
   stderr |-> CurlStderr(options, t)]

NoProc == [returncode |-> -1, stdout |-> RawText(<<>>), stderr |-> <<>>]

\* json.loads(stdout): the document, or JSONDecodeError
json_loads(stdout) ==
  IF stdout.kind = "json" THEN [ok |-> TRUE, value |-> stdout.value] ELSE [ok |-> FALSE]

(***************************************************************************)
(* The handlers                                                            *)
(***************************************************************************)
\* the variables of the environment the handlers read
EnvNames ==
  {"TWILIO_ACCOUNT_SID", "TWILIO_AUTH_TOKEN", "TWILIO_WHATSAPP_TO", "TWILIO_WHATSAPP_FROM"}

\* a credential check that forgets the two addresses
SendRequiredSidToken == {"TWILIO_ACCOUNT_SID", "TWILIO_AUTH_TOKEN"}

SendRequired ==
  {"TWILIO_ACCOUNT_SID", "TWILIO_AUTH_TOKEN", "TWILIO_WHATSAPP_TO", "TWILIO_WHATSAPP_FROM"}

VerifyRequired == {"TWILIO_ACCOUNT_SID", "TWILIO_AUTH_TOKEN"}

\* all([...]) over the values os.getenv gave
AllPresent(e, names) == \A n \in names : Truthy(e[n])

MissingCredentials ==
  ActionResult(FALSE, None, Str("Missing Twilio credentials in environment variables", <<>>))

\* a failure branch that keeps the confirmation next to the error
SendFinishBoth(p, message) ==
  IF p.returncode = 0
    THEN Return(ActionResult(FALSE, Str("Message sent successfully", <<>>), None))
    ELSE Return(ActionResult(FALSE, Str("Message sent successfully", <<>>),
                  Str("Failed to send WhatsApp message: {}", <<p.stderr>>)))

\* send_twilio_message after process.communicate()
SendFinish(p, message) ==
  IF p.returncode = 0
    THEN Return(ActionResult(FALSE, Str("Message sent successfully", <<>>), None))
    ELSE Return(ActionResult(FALSE, None,
                  Str("Failed to send WhatsApp message: {}", <<p.stderr>>)))

\* a done that hands a failed send on to its caller
DoneFinishPropagate(text, send_result) ==
  IF send_result.kind = "raise" \/ send_result.result.error.some
    THEN send_result
    ELSE Return(ActionResult(TRUE, Str("Task completed: {}", <<text>>), None))

\* done once the awaited send_twilio_message has ended: an exception of the
\* send goes through, a result of the send is dropped
DoneFinish(text, send_result) ==
  IF send_result.kind = "raise"
    THEN send_result
    ELSE Return(ActionResult(TRUE, Str("Task completed: {}", <<text>>), None))

\* the most recent record instead of the second
SecondIndexZero == 1 - 1

\* the position of the record verify_twilio_message looks at
SecondIndex == 1

\* one record being enough
MinMessagesOne == 2 - 1

\* the number of records verify_twilio_message asks for
MinMessages == 2

\* the comparison of the received, normalised body
VerifyCompare(received_message, expected_message) ==
  IF Truthy(expected_message)
    THEN IF received_message = Lower(expected_message.s)
           THEN Return(ActionResult(FALSE, Str("Message verified successfully.", <<>>), None))
           ELSE Return(ActionResult(FALSE, None,
                  Str("Received message does not match the expected message.", <<>>)))
    ELSE IF received_message = <<"y", "e", "s">>
           THEN Return(ActionResult(FALSE,
                  Str("Task completed successfully. User replied 'Yes'.", <<>>), None))
           ELSE Return(ActionResult(FALSE, None,
                  Str("User did not reply 'Yes'. Received: {}", <<received_message>>)))

\* the try block of verify_twilio_message, from the decoded document on
VerifyInspect(response_data, expected_message) ==
  IF ~HasGet(response_data) THEN Raise("AttributeError")
  ELSE LET messages == PyGet(response_data, "messages", JList(<<>>)) IN
    IF ~HasLen(messages) THEN Raise("TypeError")
    ELSE IF PyLen(messages) >= MinMessages
      THEN IF ~HasIndex(messages) THEN Raise("KeyError")
           ELSE IF PyLen(messages) <= SecondIndex THEN Raise("IndexError")
           ELSE LET second_last_message == PyIndex(messages, SecondIndex) IN
             IF ~HasGet(second_last_message) THEN Raise("AttributeError")
             ELSE LET body == PyGet(second_last_message, "body", JStr(<<>>)) IN
               IF body.t # "str" THEN Raise("AttributeError")
               ELSE VerifyCompare(Lower(Strip(body.s)), expected_message)
      ELSE Return(ActionResult(FALSE, None,
             Str("Not enough messages found to retrieve the second-to-last one.", <<>>)))

\* verify_twilio_message after process.communicate()
VerifyFinish(p, expected_message) ==
  IF p.returncode = 0
    THEN LET parsed == json_loads(p.stdout) IN
         IF parsed.ok
           THEN VerifyInspect(parsed.value, expected_message)
           ELSE Return(ActionResult(FALSE, None,
                  Str("Error decoding Twilio message response: {}", <<p.stdout.raw>>)))
    ELSE Return(ActionResult(FALSE, None,
           Str("Error receiving Twilio message. Error: {}", <<p.stderr>>)))

(***************************************************************************)
(* Inputs                                                                  *)
(***************************************************************************)
EnvValues == {NoValue, Value(<<>>), Value(<<"set">>)}

Texts == {<<>>, <<"report is ready">>}

Words ==
  {<<>>, <<"y", "e", "s">>, <<"Y", "E", "S">>, <<"Y", "e", "s">>,
   <<"n", "o">>, <<"o", "k">>, <<"O", "K">>}

Pad(n) == [i \in 1..n |-> " "]

Bodies == {Pad(l) \o w \o Pad(r) : l \in 0..MaxPad, r \in 0..MaxPad, w \in Words}

Expecteds == {NoValue} \cup {Value(b) : b \in Bodies}

Sender == JStr(<<"whatsapp:+15550100">>)
Record(body) == JObj([k \in {"body", "from"} |-> IF k = "body" THEN body ELSE Sender])
RecordNoBody == JObj([k \in {"from"} |-> Sender])

\* what may stand at position 1 of the list, and at the other positions
SelectedRecords ==
  {Record(JStr(b)) : b \in Bodies}
    \cup {Record(JNull), Record(JNum(1)), RecordNoBody, JStr(<<"y", "e", "s">>)}

OtherRecords == {Record(JStr(<<"y", "e", "s">>)), Record(JStr(<<"n", "o">>)), JNull}

RecordLists(n) ==
  IF n < 2
    THEN {JList(o) : o \in [1..n -> OtherRecords]}
    ELSE {JList([i \in 1..n |-> IF i = 2 THEN r ELSE o[i]]) :
            r \in SelectedRecords, o \in [1..n -> OtherRecords]}

MessageLists == UNION {RecordLists(n) : n \in 0..MaxRecords}

MessagesField(v) == JObj([k \in {"messages"} |-> v])
EmptyObject == JObj([k \in {} |-> JNull])

\* the provider's error document
ErrorDocument(status) ==
  JObj([k \in {"code", "message", "status"} |->
          CASE k = "code" -> JNum(20003)
            [] k = "message" -> JStr(<<"Authenticate">>)
            [] k = "status" -> JNum(status)])

ListResponses ==
  {RawText(<<"<html>">>), JsonDoc(JList(<<>>)), JsonDoc(JNum(0)), JsonDoc(EmptyObject),
   JsonDoc(MessagesField(JNull)), JsonDoc(MessagesField(JStr(<<"n", "o">>))),
   JsonDoc(MessagesField(ErrorDocument(200)))}
    \cup {JsonDoc(MessagesField(l)) : l \in MessageLists}

VerifyTransports ==
  {NoResponse(6), NoResponse(28)}
    \cup {Http(200, b) : b \in ListResponses}
    \cup {Http(401, JsonDoc(ErrorDocument(401))), Http(500, RawText(<<"<html>">>))}

SendTransports ==
  {NoResponse(6), NoResponse(28),
   Http(201, JsonDoc(Record(JStr(<<"report is ready">>)))),
   Http(400, JsonDoc(ErrorDocument(400))),
   Http(401, JsonDoc(ErrorDocument(401))),
   Http(500, RawText(<<"<html>">>))}

(***************************************************************************)
(* The state machine                                                       *)
(***************************************************************************)
Init ==
  /\ env \in [EnvNames -> EnvValues]
  /\ pc = "idle"
  /\ action = "none"
  /\ params = [message |-> <<>>]
  /\ spawned = 0
  /\ sendCalls = 0
  /\ transport = NoTransport
  /\ proc = NoProc
  /\ outcome = NoOutcome

\* the registry invokes an action when no handler is running
Ready == pc \in {"idle", "returned", "raised"}

PcAfter(o) == IF o.kind = "raise" THEN "raised" ELSE "returned"

\* send_twilio_message up to the await of create_subprocess_exec: the
\* outcome is NoOutcome when the process runs and the handler waits for it
SendStart(e, started) ==
  IF ~AllPresent(e, SendRequired)
    THEN [spawned |-> 0, outcome |-> Return(MissingCredentials)]
    ELSE [spawned |-> 1,
          outcome |-> IF started THEN NoOutcome ELSE Raise("FileNotFoundError")]

\* verify_twilio_message up to the await of create_subprocess_exec
VerifyStart(e, started) ==
  IF ~AllPresent(e, VerifyRequired)
    THEN [spawned |-> 0, outcome |-> Return(MissingCredentials)]
    ELSE [spawned |-> 1,
          outcome |-> IF started THEN NoOutcome ELSE Raise("FileNotFoundError")]

\* "Send Twilio Message" is invoked
SendTwilioMessage ==
  /\ Ready
  /\ \E message \in Texts, started \in BOOLEAN :
       LET s == SendStart(env, started)
           o == s.outcome
       IN
       /\ action' = "Send Twilio Message"
       /\ params' = [message |-> message]
       /\ sendCalls' = 1
       /\ spawned' = s.spawned
       /\ outcome' = o
       /\ pc' = IF o.kind = "none" THEN "send_communicate" ELSE PcAfter(o)
  /\ transport' = NoTransport
  /\ proc' = NoProc
  /\ UNCHANGED env

\* "Done" is invoked: it awaits send_twilio_message, which runs to its own
\* await or to its end
Done ==
  /\ Ready
  /\ \E text \in Texts, started \in BOOLEAN :
       LET s == SendStart(env, started)
           o == s.outcome
       IN
       /\ action' = "Done"
       /\ params' = [text |-> text, message |-> text]
       /\ sendCalls' = 1
       /\ spawned' = s.spawned
       /\ outcome' = IF o.kind = "none" THEN o ELSE DoneFinish(text, o)
       /\ pc' = IF o.kind = "none" THEN "send_communicate" ELSE PcAfter(o)
  /\ transport' = NoTransport
  /\ proc' = NoProc
  /\ UNCHANGED env

\* the curl of send_twilio_message has finished; the handler, and the done
\* that awaits it, run to their end
SendCommunicate ==
  /\ pc = "send_communicate"
  /\ \E t \in SendTransports :
       LET p == Communicate(SendCurlOptions, t)
           r == SendFinish(p, params.message)
       IN /\ transport' = t
          /\ proc' = p
          /\ outcome' = IF action = "Done" THEN DoneFinish(params.text, r) ELSE r
          /\ pc' = "returned"
  /\ UNCHANGED <<env, action, params, spawned, sendCalls>>

\* "Verify Twilio Message" is invoked
VerifyTwilioMessage ==
  /\ Ready
  /\ \E expected_message \in Expecteds, started \in BOOLEAN :
       LET s == VerifyStart(env, started)
           o == s.outcome
       IN
       /\ action' = "Verify Twilio Message"
       /\ params' = [expected_message |-> expected_message]
       /\ sendCalls' = 0
       /\ spawned' = s.spawned
       /\ outcome' = o
       /\ pc' = IF o.kind = "none" THEN "verify_communicate" ELSE PcAfter(o)
  /\ transport' = NoTransport
  /\ proc' = NoProc
  /\ UNCHANGED env

\* the curl of verify_twilio_message has finished
VerifyCommunicate ==
  /\ pc = "verify_communicate"
  /\ \E t \in VerifyTransports :
       LET p == Communicate(VerifyCurlOptions, t)
           o == VerifyFinish(p, params.expected_message)
       IN /\ transport' = t
          /\ proc' = p
          /\ outcome' = o
          /\ pc' = PcAfter(o)
  /\ UNCHANGED <<env, action, params, spawned, sendCalls>>

Next ==
  \/ SendTwilioMessage
  \/ Done
  \/ SendCommunicate
  \/ VerifyTwilioMessage
  \/ VerifyCommunicate

Spec == Init /\ [][Next]_vars

TypeOK ==
  /\ pc \in {"idle", "send_communicate", "verify_communicate", "returned", "raised"}
  /\ action \in {"none", "Send Twilio Message", "Verify Twilio Message", "Done"}
  /\ spawned \in 0..1
  /\ outcome.kind \in {"none", "return", "raise"}

(***************************************************************************)
(* Properties                                                              *)
(***************************************************************************)
Ended == pc \in {"returned", "raised"}
Returned == outcome.kind = "return"

Populated(x) == x.some /\ x.fmt # ""

ErrorIs(fmts) == Returned /\ outcome.result.error.some /\ outcome.result.error.fmt \in fmts

ConfigurationError == ErrorIs({"Missing Twilio credentials in environment variables"})
TransportError ==
  ErrorIs({"Failed to send WhatsApp message: {}", "Error receiving Twilio message. Error: {}"})
ResponseParseError == ErrorIs({"Error decoding Twilio message response: {}"})
InsufficientDataError ==
  ErrorIs({"Not enough messages found to retrieve the second-to-last one."})
VerificationMismatchError ==
  ErrorIs({"Received message does not match the expected message.",
           "User did not reply 'Yes'. Received: {}"})
Success == Returned /\ outcome.result.extracted_content.some /\ ~outcome.result.error.some

\* the provider answered with a status that is not a success
HttpRejected == transport.kind = "http" /\ transport.status >= 400

\* the handler decoded an object from the process output
SawObject == proc.returncode = 0 /\ proc.stdout.kind = "json" /\ proc.stdout.value.t = "obj"

\* ... whose 'messages' is a list
SawList ==
  /\ SawObject
  /\ "messages" \in DOMAIN proc.stdout.value.fields
  /\ proc.stdout.value.fields["messages"].t = "list"

Seen == proc.stdout.value.fields["messages"].items

\* ... of at least two records, the one at position 1 with a string body
SawSelectedBody ==
  /\ SawList
  /\ Len(Seen) >= 2
  /\ Seen[2].t = "obj"
  /\ "body" \in DOMAIN Seen[2].fields
  /\ Seen[2].fields["body"].t = "str"

SelectedBody == Seen[2].fields["body"].s

Normalised(s) == Lower(Strip(s))

\* C1: no invocation of Send Twilio Message, Verify Twilio Message or Done
\* ends with an exception; each ends with a returned result
C1_NoExceptionCrossesBoundary == outcome.kind # "raise"

\* C2: Send Twilio Message returns a success only when the provider reported
\* a success status, and returns an error without content whenever the
\* provider reported a non-success status
C2_SendSuccessOnlyOnProviderSuccess ==
  (action = "Send Twilio Message" /\ pc = "returned" /\ spawned = 1) =>
     /\ Success => (transport.kind = "http" /\ transport.status \in 200..299)
     /\ HttpRejected =>
          (outcome.result.error.some /\ ~outcome.result.extracted_content.some)

\* C3: with at least 2 records, Verify Twilio Message succeeds exactly when
\* the selected body, trimmed and lowercased, equals the expected value
\* trimmed and lowercased, or "yes" when no expected value is given
C3_MatchIffNormalisedEqual ==
  (action = "Verify Twilio Message" /\ Ended /\ SawSelectedBody) =>
     (Success <=>
        Normalised(SelectedBody) =
          (IF params.expected_message.some
             THEN Normalised(params.expected_message.s)
             ELSE <<"y", "e", "s">>))

\* C4: when the list call ends in a non-success HTTP outcome, Verify Twilio
\* Message fails with a TransportError that carries the raw error text
C4_NonSuccessIsTransportError ==
  (action = "Verify Twilio Message" /\ Ended
     /\ (transport.kind = "no_response" \/ HttpRejected)) =>
     (TransportError /\ outcome.result.error.args = <<proc.stderr>>)

\* C5: when any required credential variable is missing (unset or empty) the
\* action returns the ConfigurationError result and never calls
\* create_subprocess_exec; when all are present it calls it exactly once
C5_Missing(names) == {n \in names : env[n] = NoValue \/ env[n] = Value(<<>>)}

C5_CredentialGate ==
  LET gate(names) ==
        IF C5_Missing(names) # {}
          THEN /\ spawned = 0
               /\ pc = "returned"
               /\ ConfigurationError
               /\ ~outcome.result.extracted_content.some
               /\ transport = NoTransport
          ELSE /\ spawned = 1
               /\ ~ConfigurationError
  IN /\ action = "Send Twilio Message" =>
          gate({"TWILIO_ACCOUNT_SID", "TWILIO_AUTH_TOKEN",
                "TWILIO_WHATSAPP_TO", "TWILIO_WHATSAPP_FROM"})
     /\ action = "Verify Twilio Message" =>
          gate({"TWILIO_ACCOUNT_SID", "TWILIO_AUTH_TOKEN"})

C5_Witness ==
  /\ action = "Send Twilio Message"
  /\ C5_Missing({"TWILIO_ACCOUNT_SID", "TWILIO_AUTH_TOKEN"}) = {}
  /\ C5_Missing({"TWILIO_WHATSAPP_TO", "TWILIO_WHATSAPP_FROM"}) # {}
  /\ ConfigurationError
  /\ spawned = 0

\* C6: every result Send Twilio Message or Verify Twilio Message returns has
\* exactly one of extracted_content and error populated
C6_ExactlyOneField ==
  (action \in {"Send Twilio Message", "Verify Twilio Message"} /\ Returned) =>
     (Populated(outcome.result.extracted_content) # Populated(outcome.result.error))

C6_Witness ==
  /\ action = "Send Twilio Message"
  /\ transport.kind = "no_response"
  /\ TransportError
  /\ ~Populated(outcome.result.extracted_content)

\* C7: when the decoded object holds fewer than 2 records (a list of 0 or 1,
\* or no 'messages' field), Verify Twilio Message fails with
\* InsufficientDataError whatever expected_message is
C7_FewerThanTwo ==
  (action = "Verify Twilio Message" /\ Ended /\ SawObject
     /\ ("messages" \notin DOMAIN proc.stdout.value.fields
           \/ (SawList /\ Len(Seen) < 2))) =>
     (InsufficientDataError /\ ~outcome.result.extracted_content.some)

\* the single record present would match the expected value
C7_Witness ==
  /\ action = "Verify Twilio Message"
  /\ SawList
  /\ Len(Seen) = 1
  /\ Seen[1] = Record(JStr(<<"y", "e", "s">>))
  /\ params.expected_message = Value(<<"Y", "E", "S">>)
  /\ InsufficientDataError

\* C8: the mismatch error names the received body, and names the expected
\* value too when one was supplied
C8_MismatchNamesExpectedAndActual ==
  (action = "Verify Twilio Message" /\ VerificationMismatchError /\ SawSelectedBody) =>
     LET named == {outcome.result.error.args[i] : i \in DOMAIN outcome.result.error.args} IN
     /\ named \cap {SelectedBody, Normalised(SelectedBody)} # {}
     /\ Truthy(params.expected_message) =>
          named \cap {params.expected_message.s, Lower(params.expected_message.s)} # {}

\* C9: with at least 2 records the outcome does not depend on the record at
\* position 0: the same call with any other record there ends the same way
C9_ReplaceFirst(r) ==
  [proc EXCEPT !.stdout.value.fields["messages"].items[1] = r]

C9_IndependentOfMostRecent ==
  (action = "Verify Twilio Message" /\ Ended /\ SawList /\ Len(Seen) >= 2) =>
     \A r \in OtherRecords \cup SelectedRecords :
        VerifyFinish(C9_ReplaceFirst(r), params.expected_message) = outcome

\* the most recent reply matches and the second does not
C9_Witness ==
  /\ action = "Verify Twilio Message"
  /\ SawSelectedBody
  /\ Seen[1] = Record(JStr(<<"y", "e", "s">>))
  /\ SelectedBody = <<"n", "o">>
  /\ params.expected_message = NoValue
  /\ VerificationMismatchError

\* C10: Done calls send_twilio_message once, which makes the credential check
\* of Send Twilio Message and at most one outbound call, and whatever the send
\* returned Done returns is_done with "Task completed: <text>" and no error
C10_DoneDiscardsSendResult ==
  action = "Done" =>
     /\ sendCalls = 1
     /\ spawned = (IF C5_Missing({"TWILIO_ACCOUNT_SID", "TWILIO_AUTH_TOKEN",
                                  "TWILIO_WHATSAPP_TO", "TWILIO_WHATSAPP_FROM"}) = {}
                     THEN 1 ELSE 0)
     /\ pc = "returned" =>
          outcome = Return(ActionResult(TRUE,
                             Str("Task completed: {}", <<params.text>>), None))

\* the send failed in transport and Done reported completion
C10_Witness ==
  /\ action = "Done"
  /\ pc = "returned"
  /\ transport.kind = "no_response"
  /\ proc.returncode # 0
  /\ outcome.result.is_done
  /\ ~outcome.result.error.some

====
